---- MODULE Spec2Model ----
(***************************************************************************)
(* A model of the Square One cube of src/src/cube.rs: the two layers of    *)
(* pieces, their offsets, the flip and twist moves and the scramble loop.  *)
(* Layers are functions on the indices 0..11, as the Vec of the source is  *)
(* indexed; i8 arithmetic keeps its width where a sum can leave -128..127. *)
(***************************************************************************)
EXTENDS Integers, Sequences, FiniteSets, TLC

VARIABLES
    cube,               \* the SqOne value: top, top_offset, bottom, bottom_offset, middle
    fault,              \* TRUE once the program has panicked
    last_op,            \* "new", "twist" or "flip": the last method called on cube
    base,               \* top, bottom and middle as the last new() or flip() left them
    nflips,             \* number of flip() calls so far
    top_sum, bot_sum,   \* the locals of twist (recorded by TwistCall only)
    pc,                 \* position inside scramble(), "idle" outside it
    iter,               \* iterations of the scramble loop completed
    top_layer_offset,   \* local of scramble
    bot_layer_offset,   \* local of scramble
    twists,             \* local of scramble: the pairs recorded so far
    nredraws,           \* iterations so far that entered the while loop of scramble
    ncalls,             \* calls of rand_layer_offset that have returned
    rng,                \* index among the candidates of the draw the stream goes on from
    turns,              \* the field of the Scramble that is displayed
    output              \* the characters Display::fmt has written

vars == <<cube, fault, last_op, base, nflips, top_sum, bot_sum,
          pc, iter, top_layer_offset, bot_layer_offset, twists, nredraws, ncalls, rng,
          turns, output>>

display_vars == <<turns, output>>

scramble_vars ==
    <<pc, iter, top_layer_offset, bot_layer_offset, twists, nredraws, ncalls, rng>>

-----------------------------------------------------------------------------
(* Bounds of the model *)

\* Spec: flip() calls explored per behaviour
MaxFlips == 1

\* SpecScramble: leading calls of rand_layer_offset whose random draws are
\* explored exhaustively; later calls draw from a fixed fair stream
MaxFree == 2

\* SpecDisplay: pairs held by the Scramble that is displayed
MaxTurns == 2

-----------------------------------------------------------------------------
(* Colors, pieces and layers *)

White == 0
Yellow == 1
Blue == 3
Green == 4
Red == 6
Orange == 7

COLOR_ORDER == <<Green, Orange, Blue, Red>>

abs_diff(a, b) == IF a >= b THEN a - b ELSE b - a

possible(c1, c2) == abs_diff(c1, c2) # 1

Edge(c) == [kind |-> "Edge", colors |-> c]

Corner(c) == [kind |-> "Corner", colors |-> c]

\* Option::None in a layer slot
None == [kind |-> "None", colors |-> <<>>]

is_corner(p) == p.kind = "Corner"

EdgeColor_possible(p) == possible(p.colors[1], p.colors[2])

CornerColor_possible(p) ==
    /\ possible(p.colors[1], p.colors[2])
    /\ possible(p.colors[2], p.colors[3])
    /\ possible(p.colors[1], p.colors[3])

-----------------------------------------------------------------------------
(* i8 arithmetic *)

I8 == -128..127

fits_i8(x) == x >= -128 /\ x <= 127

\* two's complement wrap of an i8 result (a build without overflow checks)
wrap_i8(x) == ((x + 128) % 256) - 128

RECURSIVE abs_mod(_, _)
abs_mod(a, n) == IF a < 0 THEN abs_mod(a + n, n) ELSE a % n

-----------------------------------------------------------------------------
(* Construction *)

\* mutant of gen_layer: the first color of a corner is taken two places
\* back in COLOR_ORDER instead of one
gen_layer_opposite(is_top_layer) ==
    LET top_color == IF is_top_layer THEN White ELSE Yellow
        corner(i) == Corner(<<COLOR_ORDER[abs_mod(i - 2, 4) + 1],
                              COLOR_ORDER[i + 1], top_color>>)
        edge(i) == Edge(<<COLOR_ORDER[i + 1], top_color>>)
    IN [k \in 0..11 |->
          LET i == k \div 3
          IN CASE k % 3 = 0 -> corner(i)
               [] k % 3 = 1 -> None
               [] OTHER     -> edge(i)]

\* mutant of gen_layer: the bottom layer is given Blue for its pole color
gen_layer_blue_pole(is_top_layer) ==
    LET top_color == IF is_top_layer THEN White ELSE Blue
        corner(i) == Corner(<<COLOR_ORDER[abs_mod(i - 1, 4) + 1],
                              COLOR_ORDER[i + 1], top_color>>)
        edge(i) == Edge(<<COLOR_ORDER[i + 1], top_color>>)
    IN [k \in 0..11 |->
          LET i == k \div 3
          IN CASE k % 3 = 0 -> corner(i)
               [] k % 3 = 1 -> None
               [] OTHER     -> edge(i)]

gen_layer(is_top_layer) ==
    LET top_color == IF is_top_layer THEN White ELSE Yellow
        corner(i) == Corner(<<COLOR_ORDER[abs_mod(i - 1, 4) + 1],
                              COLOR_ORDER[i + 1], top_color>>)
        edge(i) == Edge(<<COLOR_ORDER[i + 1], top_color>>)
    IN [k \in 0..11 |->
          LET i == k \div 3
          IN CASE k % 3 = 0 -> corner(i)
               [] k % 3 = 1 -> None
               [] OTHER     -> edge(i)]

new ==
    [top |-> gen_layer(TRUE), top_offset |-> 0,
     bottom |-> gen_layer(FALSE), bottom_offset |-> 0,
     middle |-> FALSE]

-----------------------------------------------------------------------------
(* Flip legality *)

\* mutant of can_flip_layer: the cut indices taken as |5 - offset| % 12 and
\* |11 - offset| % 12
can_flip_layer_abs(layer, offset) ==
    IF is_corner(layer[abs_diff(5, offset) % 12]) THEN FALSE
    ELSE IF is_corner(layer[abs_diff(11, offset) % 12]) THEN FALSE
    ELSE TRUE

can_flip_layer(layer, offset) ==
    IF is_corner(layer[abs_mod(wrap_i8(5 - offset), 12)]) THEN FALSE
    ELSE IF is_corner(layer[abs_mod(wrap_i8(11 - offset), 12)]) THEN FALSE
    ELSE TRUE

can_flip(s) ==
    /\ can_flip_layer(s.top, s.top_offset)
    /\ can_flip_layer(s.bottom, s.bottom_offset)

-----------------------------------------------------------------------------
(* Flip *)

\* mutant of reverse_loop: an empty slot is pushed as it is met, the corner
\* before it is not pushed ahead of it
RECURSIVE reverse_loop_plain(_, _, _, _)
reverse_loop_plain(layer, it, end, reverse) ==
    IF it = end THEN reverse
    ELSE reverse_loop_plain([layer EXCEPT ![it] = None],
                            abs_mod(it - 1, 12), end,
                            Append(reverse, layer[it]))

\* the loop of get_reverse: layer is the clone, whose slots are taken
RECURSIVE reverse_loop(_, _, _, _)
reverse_loop(layer, it, end, reverse) ==
    IF it = end THEN reverse
    ELSE IF layer[it] # None
         THEN reverse_loop([layer EXCEPT ![it] = None],
                           abs_mod(it - 1, 12), end,
                           Append(reverse, layer[it]))
         ELSE LET p == abs_mod(it - 1, 12)
              IN reverse_loop([layer EXCEPT ![p] = None],
                              abs_mod(p - 1, 12), end,
                              reverse \o <<layer[p], None>>)

get_reverse(layer, offset) ==
    reverse_loop(layer, abs_mod(11 - offset, 12), abs_mod(5 - offset, 12), <<>>)

\* mutant of assign_loop: the reversed half is consumed from its end
RECURSIVE assign_loop_backwards(_, _, _, _)
assign_loop_backwards(layer, offset, reverse, i) ==
    IF i >= 12 THEN layer
    ELSE assign_loop_backwards(
             [layer EXCEPT ![abs_mod(i - offset, 12)] = reverse[12 - i]],
             offset, reverse, i + 1)

\* the for loop of flip on one layer, from index i on (index = i - 6):
\* layer[abs_mod(i - offset, 12)] = reverse[index].take()
RECURSIVE assign_loop(_, _, _, _)
assign_loop(layer, offset, reverse, i) ==
    IF i >= 12 THEN layer
    ELSE assign_loop([layer EXCEPT ![abs_mod(i - offset, 12)] = reverse[i - 6 + 1]],
                     offset, reverse, i + 1)

\* mutant of flip_halves: both layers are assigned from bottom_reverse
flip_halves_same_source(s) ==
    LET bottom_reverse == get_reverse(s.bottom, s.bottom_offset)
    IN [s EXCEPT !.top = assign_loop(s.top, s.top_offset, bottom_reverse, 6),
                 !.bottom = assign_loop(s.bottom, s.bottom_offset, bottom_reverse, 6),
                 !.middle = ~s.middle]

\* mutant of flip_halves: each layer is assigned its own reversed half
flip_halves_keeps_own(s) ==
    LET top_reverse == get_reverse(s.top, s.top_offset)
        bottom_reverse == get_reverse(s.bottom, s.bottom_offset)
    IN [s EXCEPT !.top = assign_loop(s.top, s.top_offset, top_reverse, 6),
                 !.bottom = assign_loop(s.bottom, s.bottom_offset, bottom_reverse, 6),
                 !.middle = ~s.middle]

\* mutant of flip_halves: both offsets are set back to 0
flip_halves_resets_offsets(s) ==
    LET top_reverse == get_reverse(s.top, s.top_offset)
        bottom_reverse == get_reverse(s.bottom, s.bottom_offset)
    IN [top |-> assign_loop(s.top, s.top_offset, bottom_reverse, 6),
        top_offset |-> 0,
        bottom |-> assign_loop(s.bottom, s.bottom_offset, top_reverse, 6),
        bottom_offset |-> 0,
        middle |-> ~s.middle]

\* flip past its guard: the reversed back half of each layer goes into the
\* other layer, middle is toggled
flip_halves(s) ==
    LET top_reverse == get_reverse(s.top, s.top_offset)
        bottom_reverse == get_reverse(s.bottom, s.bottom_offset)
    IN [s EXCEPT !.top = assign_loop(s.top, s.top_offset, bottom_reverse, 6),
                 !.bottom = assign_loop(s.bottom, s.bottom_offset, top_reverse, 6),
                 !.middle = ~s.middle]

\* mutant of flip: middle toggled before the legality guard returns
flip_toggles_first(s) ==
    IF ~can_flip(s) THEN [s EXCEPT !.middle = ~s.middle] ELSE flip_halves(s)

flip(s) == IF ~can_flip(s) THEN s ELSE flip_halves(s)

-----------------------------------------------------------------------------
(* Twist *)

\* mutant of normalize: Rust's own %, whose result takes the sign of x + 5
normalize_rem(x) ==
    LET y == wrap_i8(x + 5)
    IN (IF y < 0 THEN -((-y) % 12) ELSE y % 12) - 5

\* abs_mod(x + 5, 12) as i8 - 5 of twist; the sum wraps where the build
\* does not check overflow
normalize(x) == abs_mod(wrap_i8(x + 5), 12) - 5

\* mutant of twist: the layers are rotated as well as the offsets
twist_rotates(s, a, b) ==
    LET ts == wrap_i8(s.top_offset + a)
        bs == wrap_i8(s.bottom_offset - b)
    IN [s EXCEPT !.top_offset = normalize(ts),
                 !.bottom_offset = normalize(bs),
                 !.top = [k \in 0..11 |-> s.top[abs_mod(k - a, 12)]],
                 !.bottom = [k \in 0..11 |-> s.bottom[abs_mod(k + b, 12)]]]

\* twist in a build without overflow checks: every sum wraps
twist(s, a, b) ==
    LET ts == wrap_i8(s.top_offset + a)
        bs == wrap_i8(s.bottom_offset - b)
    IN [s EXCEPT !.top_offset = normalize(ts),
                 !.bottom_offset = normalize(bs)]

\* some sum of twist leaves the i8 range
twist_overflows(s, a, b) ==
    \/ ~fits_i8(s.top_offset + a)
    \/ ~fits_i8(s.bottom_offset - b)
    \/ ~fits_i8(s.top_offset + a + 5)
    \/ ~fits_i8(s.bottom_offset - b + 5)

\* twist in a build with overflow checks: the first overflowing sum panics;
\* a panic in the last statement leaves top_offset already assigned
twist_checked(s, a, b) ==
    LET ts == s.top_offset + a
        bs == s.bottom_offset - b
    IN IF ~fits_i8(ts) \/ ~fits_i8(bs) \/ ~fits_i8(ts + 5)
       THEN [cube |-> s, fault |-> TRUE]
       ELSE IF ~fits_i8(bs + 5)
            THEN [cube |-> [s EXCEPT !.top_offset = normalize(ts)], fault |-> TRUE]
            ELSE [cube |-> twist(s, a, b), fault |-> FALSE]

\* what a call of twist can leave behind, over both kinds of build
twist_outcomes(s, a, b) ==
    IF twist_overflows(s, a, b)
    THEN {[cube |-> twist(s, a, b), fault |-> FALSE], twist_checked(s, a, b)}
    ELSE {[cube |-> twist(s, a, b), fault |-> FALSE]}

-----------------------------------------------------------------------------
(* The cube driven by its methods: Spec *)

contents(s) == [top |-> s.top, bottom |-> s.bottom, middle |-> s.middle]

\* deltas a caller passes to twist in Spec: single steps either way and no turn
TwistArgs == {-1, 0, 1}

Init ==
    /\ cube = new
    /\ fault = FALSE
    /\ last_op = "new"
    /\ base = contents(new)
    /\ nflips = 0
    /\ top_sum = 0
    /\ bot_sum = 0
    /\ pc = "idle"
    /\ iter = 0
    /\ top_layer_offset = 0
    /\ bot_layer_offset = 0
    /\ twists = <<>>
    /\ nredraws = 0
    /\ ncalls = 0
    /\ rng = 0
    /\ turns = <<>>
    /\ output = <<>>

\* a call of twist, common to Spec and SpecTwist
TwistBody(a, b) ==
    /\ ~fault
    /\ \E o \in twist_outcomes(cube, a, b) :
          /\ cube' = o.cube
          /\ fault' = o.fault
    /\ last_op' = "twist"
    /\ UNCHANGED <<base, nflips, scramble_vars, display_vars>>

Twist(a, b) ==
    /\ pc = "idle"
    /\ TwistBody(a, b)
    /\ UNCHANGED <<top_sum, bot_sum>>

Flip ==
    /\ pc = "idle"
    /\ ~fault
    /\ can_flip(cube) => nflips < MaxFlips
    /\ cube' = flip(cube)
    /\ last_op' = "flip"
    /\ base' = contents(cube')
    /\ nflips' = IF can_flip(cube) THEN nflips + 1 ELSE nflips
    /\ UNCHANGED <<fault, top_sum, bot_sum, scramble_vars, display_vars>>

Next ==
    \/ \E a \in TwistArgs, b \in TwistArgs : Twist(a, b)
    \/ Flip

Spec == Init /\ [][Next]_vars

-----------------------------------------------------------------------------
(* One call of twist with any i8 arguments: SpecTwist *)

\* the offsets twist leaves
Offsets == -5..6

\* the offsets the call starts from: both ends of the range and the middle
InitOffsets == {-5, 0, 6}

InitTwist ==
    /\ \E t \in InitOffsets, b \in InitOffsets :
          cube = [new EXCEPT !.top_offset = t, !.bottom_offset = b]
    /\ fault = FALSE
    /\ last_op = "new"
    /\ base = contents(new)
    /\ nflips = 0
    /\ top_sum = 0
    /\ bot_sum = 0
    /\ pc = "idle"
    /\ iter = 0
    /\ top_layer_offset = 0
    /\ bot_layer_offset = 0
    /\ twists = <<>>
    /\ nredraws = 0
    /\ ncalls = 0
    /\ rng = 0
    /\ turns = <<>>
    /\ output = <<>>

\* the call, its two sums kept as a build without overflow checks has them
TwistCall(a, b) ==
    /\ TwistBody(a, b)
    /\ top_sum' = wrap_i8(cube.top_offset + a)
    /\ bot_sum' = wrap_i8(cube.bottom_offset - b)

NextTwist == last_op = "new" /\ \E a \in I8, b \in I8 : TwistCall(a, b)

SpecTwist == InitTwist /\ [][NextTwist]_vars

-----------------------------------------------------------------------------
(* scramble(): SpecScramble *)

NUM_FLIPS == 20

\* gen_range(-5..6 + 1)
Candidates == -5..6

\* the random source of the calls past MaxFree: a fixed stream that
\* visits every index 0..11 in turn of 7
next_rng(r) == (r + 7) % 12

\* what the random source can produce next
Draws == IF ncalls < MaxFree THEN Candidates ELSE {next_rng(rng) - 5}

\* the index the stream goes on from after the draw of r: the index of r,
\* but for a rejected draw of an explored call, which leaves no trace
drawn(r, accepted) == IF ncalls < MaxFree /\ ~accepted THEN rng ELSE r + 5

\* mutant of accepts: the candidate is tested without the layer's offset
accepts_unshifted(layer, offset, rnum) == can_flip_layer(layer, rnum)

\* the test of the loop of rand_layer_offset
accepts(layer, offset, rnum) == can_flip_layer(layer, wrap_i8(rnum + offset))

\* the value rand_layer_offset returns for the accepted r
layer_offset_result(r) == IF r = -6 THEN 6 ELSE r

\* mutant of needs_redraw: the guard for a zero top offset is missing
needs_redraw_never(t, b) == FALSE

\* if top_layer_offset == 0 { while bot_layer_offset == 0 {
needs_redraw(t, b) == t = 0 /\ b = 0

\* mutant of redrawn: the redrawn offset is not assigned
redrawn_dropped(old, r) == old

\* bot_layer_offset = Self::rand_layer_offset(..) inside the while loop
redrawn(old, r) == r

\* mutant of recorded_pair: the bottom offset is recorded as drawn
recorded_pair_as_drawn(t, b) == <<t, b>>

\* twists.push((top_layer_offset, -bot_layer_offset))
recorded_pair(t, b) == <<t, -b>>

ScrambleCall ==
    /\ pc = "idle"
    /\ last_op = "new"
    /\ ~fault
    /\ pc' = "draw_top"
    /\ twists' = <<>>
    /\ UNCHANGED <<cube, fault, last_op, base, nflips, top_sum, bot_sum,
                   iter, top_layer_offset, bot_layer_offset, nredraws, ncalls, rng, display_vars>>

\* one pass of the loop of rand_layer_offset on the top layer
DrawTop ==
    /\ pc = "draw_top"
    /\ \E r \in Draws :
          /\ rng' = drawn(r, accepts(cube.top, cube.top_offset, r))
          /\ IF accepts(cube.top, cube.top_offset, r)
             THEN /\ top_layer_offset' = layer_offset_result(r)
                  /\ ncalls' = ncalls + 1
                  /\ pc' = "draw_bot"
             ELSE UNCHANGED <<top_layer_offset, ncalls, pc>>
    /\ UNCHANGED <<cube, fault, last_op, base, nflips, top_sum, bot_sum,
                   iter, bot_layer_offset, twists, nredraws, display_vars>>

\* one pass of the loop of rand_layer_offset on the bottom layer
DrawBot ==
    /\ pc = "draw_bot"
    /\ \E r \in Draws :
          /\ rng' = drawn(r, accepts(cube.bottom, cube.bottom_offset, r))
          /\ IF accepts(cube.bottom, cube.bottom_offset, r)
             THEN /\ bot_layer_offset' = layer_offset_result(r)
                  /\ ncalls' = ncalls + 1
                  /\ IF needs_redraw(top_layer_offset, layer_offset_result(r))
                     THEN pc' = "redraw_bot" /\ nredraws' = nredraws + 1
                     ELSE pc' = "twist" /\ nredraws' = nredraws
             ELSE UNCHANGED <<bot_layer_offset, ncalls, pc, nredraws>>
    /\ UNCHANGED <<cube, fault, last_op, base, nflips, top_sum, bot_sum,
                   iter, top_layer_offset, twists, display_vars>>

\* one pass of the loop of rand_layer_offset called from the while loop
RedrawBot ==
    /\ pc = "redraw_bot"
    /\ \E r \in Draws :
          /\ rng' = drawn(r, accepts(cube.bottom, cube.bottom_offset, r))
          /\ IF accepts(cube.bottom, cube.bottom_offset, r)
             THEN LET b == redrawn(bot_layer_offset, layer_offset_result(r))
                  IN /\ bot_layer_offset' = b
                     /\ ncalls' = ncalls + 1
                     /\ pc' = IF needs_redraw(top_layer_offset, b)
                              THEN "redraw_bot" ELSE "twist"
             ELSE UNCHANGED <<bot_layer_offset, ncalls, pc>>
    /\ UNCHANGED <<cube, fault, last_op, base, nflips, top_sum, bot_sum,
                   iter, top_layer_offset, twists, nredraws, display_vars>>

\* self.twist(top_layer_offset, -bot_layer_offset)
ScrambleTwist ==
    /\ pc = "twist"
    /\ \E o \in twist_outcomes(cube, top_layer_offset, -bot_layer_offset) :
          /\ cube' = o.cube
          /\ fault' = o.fault
          /\ pc' = IF o.fault THEN "panicked" ELSE "flip"
    /\ last_op' = "twist"
    /\ UNCHANGED <<base, nflips, top_sum, bot_sum, iter, top_layer_offset,
                   bot_layer_offset, twists, nredraws, ncalls, rng, display_vars>>

\* self.flip(), the push of the pair and the end of the iteration
ScrambleFlip ==
    /\ pc = "flip"
    /\ cube' = flip(cube)
    /\ last_op' = "flip"
    /\ base' = contents(cube')
    /\ nflips' = IF can_flip(cube) THEN nflips + 1 ELSE nflips
    /\ twists' = Append(twists, recorded_pair(top_layer_offset, bot_layer_offset))
    /\ iter' = iter + 1
    /\ pc' = IF iter + 1 < NUM_FLIPS THEN "draw_top" ELSE "done"
    /\ UNCHANGED <<fault, top_sum, bot_sum, top_layer_offset,
                   bot_layer_offset, nredraws, ncalls, rng, display_vars>>

NextScramble ==
    \/ ScrambleCall
    \/ DrawTop
    \/ DrawBot
    \/ RedrawBot
    \/ ScrambleTwist
    \/ ScrambleFlip

SpecScramble == Init /\ [][NextScramble]_vars

\* the program keeps running and its random source is fair: a rejected draw
\* of an explored call leaves the state as it is, so a step that changes
\* the state there is a draw that is accepted, and it is not put off for ever
SpecScrambleFair ==
    /\ Init
    /\ [][NextScramble]_vars
    /\ WF_vars(NextScramble)

-----------------------------------------------------------------------------
(* Display of a Scramble (src/src/lib.rs): SpecDisplay *)

\* a String is a sequence of characters
Digits == <<"0", "1", "2", "3", "4", "5", "6", "7", "8", "9">>

\* the decimal digits of a natural number
RECURSIVE fmt_nat(_)
fmt_nat(n) ==
    IF n < 10 THEN <<Digits[n + 1]>>
    ELSE fmt_nat(n \div 10) \o <<Digits[(n % 10) + 1]>>

\* {:?} of an i8
fmt_i8(n) == IF n < 0 THEN <<"-">> \o fmt_nat(-n) ELSE fmt_nat(n)

\* {:?} of a pair (i8, i8)
fmt_pair(p) == <<"(">> \o fmt_i8(p[1]) \o <<",", " ">> \o fmt_i8(p[2]) \o <<")">>

\* the separator appended after a pair inside the loop
Separator == <<" ", "/", " ">>

\* for i in 0..self.turns.len()-1, from i on
RECURSIVE fmt_loop(_, _, _)
fmt_loop(t, i, out) ==
    IF i >= Len(t) - 1 THEN out
    ELSE fmt_loop(t, i + 1, out \o fmt_pair(t[i + 1]) \o Separator)

\* what fmt writes: with no pair, len()-1 overflows, which panics where
\* overflow is checked; where it wraps the loop runs and its first index,
\* turns[0], is out of bounds, which panics as well
fmt(t) ==
    IF Len(t) = 0
    THEN [output |-> <<>>, fault |-> TRUE]
    ELSE [output |-> fmt_loop(t, 0, <<>>) \o fmt_pair(t[Len(t)]), fault |-> FALSE]

\* components of the pairs displayed
DisplayArgs == {-128, -2, 0, 1, 3}

DisplayPairs == DisplayArgs \X DisplayArgs

InitDisplay ==
    /\ cube = new
    /\ fault = FALSE
    /\ last_op = "new"
    /\ base = contents(new)
    /\ nflips = 0
    /\ top_sum = 0
    /\ bot_sum = 0
    /\ pc = "idle"
    /\ iter = 0
    /\ top_layer_offset = 0
    /\ bot_layer_offset = 0
    /\ twists = <<>>
    /\ nredraws = 0
    /\ ncalls = 0
    /\ rng = 0
    /\ \E n \in 0..MaxTurns : turns \in [1..n -> DisplayPairs]
    /\ output = <<>>

\* write!(f, "{}", ..) of the string fmt builds
DisplayFmt ==
    /\ last_op = "new"
    /\ output' = fmt(turns).output
    /\ fault' = fmt(turns).fault
    /\ last_op' = "fmt"
    /\ UNCHANGED <<cube, base, nflips, top_sum, bot_sum, scramble_vars, turns>>

NextDisplay == DisplayFmt

SpecDisplay == InitDisplay /\ [][NextDisplay]_vars

-----------------------------------------------------------------------------
(* Properties of flip and twist *)

\* C5: in every state reached by twists and flips where can_flip holds, two
\* flips in a row give back every slot of top and bottom and the value of
\* middle (and leave the offsets alone); the first state is the solved one,
\* whose middle is FALSE.
FlipTwiceRestores ==
    can_flip(cube) =>
        LET once == flip(cube)
            twice == flip(once)
        IN /\ twice.top = cube.top
           /\ twice.bottom = cube.bottom
           /\ twice.middle = cube.middle
           /\ twice.top_offset = cube.top_offset
           /\ twice.bottom_offset = cube.bottom_offset
           /\ (cube = new => twice.middle = FALSE)

\* a state left by a flip that moved pieces, from which a further flip moves
\* pieces again and the one after it puts them back
FlipTwiceWitness ==
    /\ last_op = "flip"
    /\ nflips = 1
    /\ cube.top # new.top
    /\ can_flip(cube)
    /\ flip(cube).top # cube.top
    /\ flip(cube).middle # cube.middle
    /\ flip(flip(cube)).top = cube.top
    /\ flip(flip(cube)).middle = cube.middle

\* C6: a flip called while can_flip is false changes nothing of the cube and
\* raises no fault.
FlipIllegalIsNoOp ==
    [][(last_op' = "flip" /\ ~can_flip(cube)) => (cube' = cube /\ fault' = fault)]_vars

\* a flip has been called on a cube twisted to offsets that cut a corner
FlipIllegalWitness ==
    /\ last_op = "flip"
    /\ ~can_flip(cube)
    /\ ~fault
    /\ nflips = 0
    /\ cube.top = new.top
    /\ cube.middle = FALSE

\* C7: twists change only the offsets: the slots of top and bottom and middle
\* are those the last new() or flip() left, however many twists followed.
TwistKeepsContents ==
    /\ cube.top = base.top
    /\ cube.bottom = base.bottom
    /\ cube.middle = base.middle

\* twists have moved both offsets of a cube that was flipped before
TwistKeepsContentsWitness ==
    /\ last_op = "twist"
    /\ nflips = 1
    /\ cube.top_offset = 3
    /\ cube.bottom_offset = -4
    /\ cube.top = base.top
    /\ cube.top # new.top

\* C8: twist never fails: whatever i8 arguments it is called with, it ends
\* without a fault and with both offsets in -5..6.
TwistNeverFails ==
    last_op = "twist" =>
        /\ ~fault
        /\ cube.top_offset \in Offsets
        /\ cube.bottom_offset \in Offsets

\* C9: on every sum x that twist normalizes without overflow, normalize(x)
\* is ((x + 5) mod 12) - 5, lies in -5..6 and is a fixed point of normalize;
\* it is the offset twist stores.
NormalizeIdempotent ==
    last_op = "twist" =>
        /\ \A x \in {top_sum, bot_sum} :
              fits_i8(x + 5) =>
                  /\ normalize(x) = ((x + 5) % 12) - 5
                  /\ normalize(x) \in Offsets
                  /\ normalize(normalize(x)) = normalize(x)
        /\ ~fault => /\ cube.top_offset = normalize(top_sum)
                     /\ cube.bottom_offset = normalize(bot_sum)

\* twist has normalized a sum below -5 and a sum above 6
NormalizeWitness ==
    /\ last_op = "twist"
    /\ ~fault
    /\ top_sum = -128
    /\ bot_sum = 122
    /\ cube.top_offset = 4
    /\ cube.bottom_offset = 2
    /\ normalize(cube.top_offset) = 4

\* offsets for which no sum of can_flip_layer or normalize overflows
CheckedOffsets == -116..122

\* C10: for the layers of every state a new() or a flip() leaves and every
\* checked offset, can_flip_layer gives the same answer for the offset and
\* for its normalization.
CanFlipLayerModulo ==
    last_op # "twist" =>
        \A o \in CheckedOffsets :
            /\ can_flip_layer(cube.top, o) = can_flip_layer(cube.top, normalize(o))
            /\ can_flip_layer(cube.bottom, o) = can_flip_layer(cube.bottom, normalize(o))

\* a flipped top layer that some offsets outside -5..6 can cut and others
\* cannot
CanFlipLayerWitness ==
    /\ last_op = "flip"
    /\ nflips = 1
    /\ cube.top # new.top
    /\ can_flip_layer(cube.top, 31)
    /\ can_flip_layer(cube.top, normalize(31))
    /\ normalize(31) = -5
    /\ ~can_flip_layer(cube.top, -40)
    /\ ~can_flip_layer(cube.top, normalize(-40))

\* ((x + 5) mod 12) - 5 on the integers
normalize_int(x) == ((x + 5) % 12) - 5

\* C18: twist(top_delta, bottom_delta) called with any i8 deltas, on offsets
\* in -5..6, sets top_offset to normalize(top_offset + top_delta) and
\* bottom_offset to normalize(bottom_offset - bottom_delta), checks nothing
\* and does not fail, and both offsets lie in -5..6 after it. The deltas of
\* the call are read off the sums it has computed.
TwistSetsNormalizedOffsets ==
    [][last_op' = "twist" =>
          LET top_delta == wrap_i8(top_sum' - cube.top_offset)
              bottom_delta == wrap_i8(cube.bottom_offset - bot_sum')
          IN /\ ~fault'
             /\ cube'.top_offset = normalize_int(cube.top_offset + top_delta)
             /\ cube'.bottom_offset = normalize_int(cube.bottom_offset - bottom_delta)
             /\ cube'.top_offset \in Offsets
             /\ cube'.bottom_offset \in Offsets]_vars

-----------------------------------------------------------------------------
(* Properties of scramble *)

\* C1: scramble() on a new cube returns exactly NUM_FLIPS pairs, and both
\* components of every pair it records lie in -5..6.
ScrambleReturnsPairsInRange ==
    /\ Len(twists) = iter
    /\ iter <= NUM_FLIPS
    /\ pc = "done" => Len(twists) = NUM_FLIPS
    /\ \A i \in 1..Len(twists) :
          /\ twists[i][1] \in Offsets
          /\ twists[i][2] \in Offsets

\* C2: no recorded pair is (0, 0): when the top offset drawn is 0 the bottom
\* offset handed to twist, and the bottom component recorded, is not 0.
NoZeroPair ==
    /\ \A i \in 1..Len(twists) :
          /\ twists[i] # <<0, 0>>
          /\ twists[i][1] = 0 => twists[i][2] # 0
    /\ pc \in {"twist", "flip"} =>
          (top_layer_offset = 0 => bot_layer_offset # 0)

\* the first iteration drew 0 for the top and 0 for the bottom, redrew the
\* bottom and recorded the pair
NoZeroPairWitness ==
    /\ iter = 1
    /\ nredraws = 1
    /\ pc = "draw_top"
    /\ twists[1][1] = 0
    /\ twists[1][2] # 0

\* the caller's reading of a scramble: twist(a, b) then flip() for each pair;
\* next is the cube after the first pair, computed before the rest is applied
RECURSIVE apply_scramble(_, _)
apply_scramble(s, seq) ==
    IF seq = <<>> THEN s
    ELSE CHOOSE r \in {apply_scramble(next, Tail(seq)) :
                          next \in {flip(twist(s, seq[1][1], seq[1][2]))}} : TRUE

\* C3: the pairs recorded describe the state left: twist(a, b) then flip()
\* for each pair in order, from a new cube, gives the top, top_offset,
\* bottom, bottom_offset and middle that scramble() has left (after each
\* iteration, and so at its return).
ScrambleDescribesState ==
    pc \in {"draw_top", "done"} => apply_scramble(new, twists) = cube

\* scramble() has returned 20 pairs and left a cube that is not the new one
ScrambleDescribesWitness ==
    /\ pc = "done"
    /\ Len(twists) = NUM_FLIPS
    /\ cube.top # new.top
    /\ cube.bottom_offset # 0
    /\ apply_scramble(new, twists) = cube

\* each loop of draws has a candidate that ends it
LoopsCanEnd ==
    /\ pc = "draw_top" =>
          \E r \in Candidates : accepts(cube.top, cube.top_offset, r)
    /\ pc = "draw_bot" =>
          \E r \in Candidates : accepts(cube.bottom, cube.bottom_offset, r)
    /\ pc = "redraw_bot" =>
          \E r \in Candidates :
              /\ accepts(cube.bottom, cube.bottom_offset, r)
              /\ ~needs_redraw(top_layer_offset,
                               redrawn(bot_layer_offset, layer_offset_result(r)))

\* C4: in every state of a scramble each loop of draws has a candidate in
\* -5..6 that ends it, and with fair draws scramble() returns.
ScrambleTerminates == []LoopsCanEnd /\ <>(pc = "done")

\* scramble() has returned after going through all three loops of draws
ScrambleTerminatesWitness ==
    /\ pc = "done"
    /\ iter = NUM_FLIPS
    /\ nredraws >= 1
    /\ nflips = NUM_FLIPS

\* C19: inside scramble() the flip is never a no-op: right after
\* twist(t, -b) can_flip holds, so every iteration completed has flipped
\* the cube and toggled middle once, and when scramble() returns from a new
\* cube middle is FALSE again.
ScrambleAlwaysFlips ==
    /\ pc = "flip" => can_flip(cube)
    /\ pc \in {"draw_top", "draw_bot", "redraw_bot", "twist", "flip", "done"} =>
          /\ nflips = iter
          /\ cube.middle = (iter % 2 = 1)
    /\ pc = "done" => (nflips = NUM_FLIPS /\ cube.middle = FALSE)

\* scramble() is about to flip for the last time, at offsets that are not
\* those of a new cube, after 19 flips that all moved pieces
ScrambleAlwaysFlipsWitness ==
    /\ pc = "flip"
    /\ iter = NUM_FLIPS - 1
    /\ nflips = NUM_FLIPS - 1
    /\ cube.middle = TRUE
    /\ cube.top_offset # 0
    /\ can_flip(cube)
    /\ flip(cube).middle = FALSE

-----------------------------------------------------------------------------
(* Properties of construction and of the pieces *)

\* the piece in a slot is possible; an empty slot holds no piece
piece_possible(p) ==
    CASE p.kind = "Edge"   -> EdgeColor_possible(p)
      [] p.kind = "Corner" -> CornerColor_possible(p)
      [] OTHER             -> TRUE

\* every Edge and Corner of both layers is possible
AllPiecesPossible(s) ==
    \A k \in 0..11 : piece_possible(s.top[k]) /\ piece_possible(s.bottom[k])

\* C11: the state new() returns has top_offset 0, bottom_offset 0 and middle
\* FALSE, and no Edge or Corner of its two layers has two colors whose codes
\* differ by exactly 1.
NewIsSolved ==
    last_op = "new" =>
        /\ cube.top_offset = 0
        /\ cube.bottom_offset = 0
        /\ cube.middle = FALSE
        /\ AllPiecesPossible(cube)

\* the state right after new(): four corners and four edges in each layer
NewIsSolvedWitness ==
    /\ last_op = "new"
    /\ nflips = 0
    /\ \A l \in {cube.top, cube.bottom} :
          /\ Cardinality({k \in 0..11 : l[k].kind = "Corner"}) = 4
          /\ Cardinality({k \in 0..11 : l[k].kind = "Edge"}) = 4
    /\ cube.top[0].colors = <<Red, Green, White>>
    /\ cube.bottom[2].colors = <<Green, Yellow>>

\* C12: scramble() on a new cube never leaves an invalid piece: after each of
\* its twist-then-flip moves, and so after all NUM_FLIPS of them, every Edge
\* and Corner in either layer is possible.
ScrambleKeepsPiecesPossible ==
    pc \in {"draw_top", "draw_bot", "redraw_bot", "twist", "flip", "done"} =>
        AllPiecesPossible(cube)

\* scramble() has returned after NUM_FLIPS flips that moved Yellow pieces
\* into the top layer and White pieces into the bottom layer
ScrambleKeepsPiecesWitness ==
    /\ pc = "done"
    /\ iter = NUM_FLIPS
    /\ nflips = NUM_FLIPS
    /\ \E k \in 0..11 : cube.top[k].kind = "Corner" /\ cube.top[k].colors[3] = Yellow
    /\ \E k \in 0..11 : cube.bottom[k].kind = "Edge" /\ cube.bottom[k].colors[2] = White

-----------------------------------------------------------------------------
(* Properties of the layers *)

\* the candidates of rand_layer_offset that the layer accepts at its offset
legal_draws(layer, offset) == {r \in Candidates : accepts(layer, offset, r)}

\* C14 as stated: each layer, with its current offset, accepts at least 4 of
\* the 12 candidates of rand_layer_offset.
FourLegalDraws ==
    /\ Cardinality(legal_draws(cube.top, cube.top_offset)) >= 4
    /\ Cardinality(legal_draws(cube.bottom, cube.bottom_offset)) >= 4

\* C14 (amended): each layer, with its current offset, accepts at least 2 of
\* the 12 candidates of rand_layer_offset.
TwoLegalDraws ==
    /\ Cardinality(legal_draws(cube.top, cube.top_offset)) >= 2
    /\ Cardinality(legal_draws(cube.bottom, cube.bottom_offset)) >= 2

\* flips have left a layer that accepts exactly 2 of the 12 candidates
TwoLegalDrawsWitness ==
    /\ last_op = "flip"
    /\ nflips >= 2
    /\ \/ Cardinality(legal_draws(cube.top, cube.top_offset)) = 2
       \/ Cardinality(legal_draws(cube.bottom, cube.bottom_offset)) = 2

\* a layer of 12 slots where every Corner is followed (circularly) by an
\* empty slot and every empty slot follows a Corner
well_formed(layer) ==
    /\ DOMAIN layer = 0..11
    /\ \A k \in 0..11 :
          /\ layer[k].kind \in {"Edge", "Corner", "None"}
          /\ is_corner(layer[k]) => layer[(k + 1) % 12] = None
          /\ layer[k] = None => is_corner(layer[(k + 11) % 12])

\* the slots the pieces of a layer cover: two for a Corner, one for an Edge
slots_covered(layer) ==
    2 * Cardinality({k \in DOMAIN layer : layer[k].kind = "Corner"})
        + Cardinality({k \in DOMAIN layer : layer[k].kind = "Edge"})

\* C17: in every state reached by twists and flips, and after one more
\* flip, each layer has 12 slots, every Corner is followed (circularly) by
\* an empty slot, every empty slot follows a Corner, and the pieces of the
\* layer cover exactly 12 slots.
LayersWellFormed ==
    /\ well_formed(cube.top)
    /\ well_formed(cube.bottom)
    /\ slots_covered(cube.top) = 12
    /\ slots_covered(cube.bottom) = 12
    /\ well_formed(flip(cube).top)
    /\ well_formed(flip(cube).bottom)
    /\ slots_covered(flip(cube).top) = 12
    /\ slots_covered(flip(cube).bottom) = 12

\* a flip has left layers that are not those of a new cube, and a further
\* flip moves pieces again
LayersWellFormedWitness ==
    /\ last_op = "flip"
    /\ nflips = 1
    /\ cube.top # gen_layer(TRUE)
    /\ cube.top_offset = -2
    /\ well_formed(cube.top)
    /\ can_flip(cube)
    /\ flip(cube).top # cube.top
    /\ well_formed(flip(cube).top)

-----------------------------------------------------------------------------
(* Properties of a legal flip *)

\* the slots of a layer at the indices (i - offset) mod 12, i = lo..lo + 5,
\* read in increasing i
half(layer, offset, lo) == [j \in 1..6 |-> layer[(lo + j - 1 - offset + 12) % 12]]

front_half(layer, offset) == half(layer, offset, 0)

back_half(layer, offset) == half(layer, offset, 6)

\* the pieces of the half h in reversed order, each Corner still right
\* before its continuation slot: in h read backwards a continuation slot
\* comes right before its Corner, and the two change places
reversed_pieces(h) ==
    [j \in 1..6 |->
        IF h[7 - j] = None /\ j < 6 THEN h[6 - j]
        ELSE IF is_corner(h[7 - j]) THEN None
        ELSE h[7 - j]]

\* the pieces of both layers
pieces(s) == {s.top[k] : k \in 0..11} \cup {s.bottom[k] : k \in 0..11}

\* the number of slots of both layers that hold a piece
npieces(s) ==
    Cardinality({k \in 0..11 : s.top[k] # None})
        + Cardinality({k \in 0..11 : s.bottom[k] # None})

\* C15: when can_flip holds, after flip the back half of top holds the
\* pieces of the old back half of bottom in reversed piece order, each
\* Corner right before its continuation slot, the back half of bottom holds
\* those of the old back half of top likewise, and the pieces of the two
\* layers are the same as before, none lost and none twice.
FlipSwapsReversedHalves ==
    can_flip(cube) =>
        LET after == flip(cube)
            top_back == back_half(after.top, cube.top_offset)
            bottom_back == back_half(after.bottom, cube.bottom_offset)
        IN /\ top_back = reversed_pieces(back_half(cube.bottom, cube.bottom_offset))
           /\ bottom_back = reversed_pieces(back_half(cube.top, cube.top_offset))
           /\ \A j \in 1..6 :
                 /\ is_corner(top_back[j]) => (j < 6 /\ top_back[j + 1] = None)
                 /\ is_corner(bottom_back[j]) => (j < 6 /\ bottom_back[j + 1] = None)
           /\ pieces(after) = pieces(cube)
           /\ npieces(after) = npieces(cube)

\* the solved cube flipped once: each back half holds the other layer's
\* edges and corners in reversed order, and a further flip is legal
FlipSwapsWitness ==
    /\ last_op = "flip"
    /\ nflips = 1
    /\ cube.top_offset = 0
    /\ cube.bottom_offset = 0
    /\ back_half(cube.top, 0) =
          <<Edge(<<Red, Yellow>>), Corner(<<Blue, Red, Yellow>>), None,
            Edge(<<Blue, Yellow>>), Corner(<<Orange, Blue, Yellow>>), None>>
    /\ back_half(cube.bottom, 0) =
          <<Edge(<<Red, White>>), Corner(<<Blue, Red, White>>), None,
            Edge(<<Blue, White>>), Corner(<<Orange, Blue, White>>), None>>
    /\ can_flip(cube)

\* C16: when can_flip holds, flip leaves top_offset and bottom_offset as
\* they are, leaves the six front slots of each layer (indices
\* (i - offset) mod 12, i = 0..5) as they are, and toggles middle.
FlipFrame ==
    can_flip(cube) =>
        LET after == flip(cube)
        IN /\ after.top_offset = cube.top_offset
           /\ after.bottom_offset = cube.bottom_offset
           /\ front_half(after.top, cube.top_offset) =
                 front_half(cube.top, cube.top_offset)
           /\ front_half(after.bottom, cube.bottom_offset) =
                 front_half(cube.bottom, cube.bottom_offset)
           /\ after.middle = ~cube.middle

\* a new cube twisted to the offsets 1 and -3 and then flipped: the offsets
\* and the front halves are those from before the flip, the back halves are
\* not, and middle is TRUE
FlipFrameWitness ==
    /\ last_op = "flip"
    /\ nflips = 1
    /\ cube.top_offset = 1
    /\ cube.bottom_offset = -3
    /\ cube.middle = TRUE
    /\ front_half(cube.top, 1) = front_half(gen_layer(TRUE), 1)
    /\ front_half(cube.bottom, -3) = front_half(gen_layer(FALSE), -3)
    /\ back_half(cube.top, 1) # back_half(gen_layer(TRUE), 1)

\* C20: when can_flip holds, it still holds right after flip: neither cut
\* index of either layer holds a Corner once the halves are swapped, and the
\* candidate 0 is accepted for both layers.
FlipKeepsLegal ==
    can_flip(cube) =>
        LET after == flip(cube)
        IN /\ can_flip(after)
           /\ \A c \in {5, 11} :
                 /\ ~is_corner(after.top[(c - after.top_offset + 12) % 12])
                 /\ ~is_corner(after.bottom[(c - after.bottom_offset + 12) % 12])
           /\ accepts(after.top, after.top_offset, 0)
           /\ accepts(after.bottom, after.bottom_offset, 0)

\* a flip at the offsets 4 and -2 has moved pieces and can be followed by
\* another flip at once
FlipKeepsLegalWitness ==
    /\ last_op = "flip"
    /\ nflips = 1
    /\ cube.top_offset = 4
    /\ cube.bottom_offset = -2
    /\ cube.middle = TRUE
    /\ cube.bottom # gen_layer(FALSE)
    /\ can_flip(cube)
    /\ 0 \in legal_draws(cube.top, cube.top_offset)
    /\ 0 \in legal_draws(cube.bottom, cube.bottom_offset)

-----------------------------------------------------------------------------
(* Properties of Display *)

\* the indices of out at which the separator " / " starts
separators(out) ==
    {k \in 1..Len(out) : k + 2 <= Len(out) /\ SubSeq(out, k, k + 2) = Separator}

\* the pairs of t in order, each in its tuple form, " / " between
\* consecutive pairs only
RECURSIVE joined(_)
joined(t) ==
    IF Len(t) = 0 THEN <<>>
    ELSE IF Len(t) = 1 THEN fmt_pair(t[1])
    ELSE fmt_pair(t[1]) \o Separator \o joined(Tail(t))

\* C13: for any sequence of pairs a Scramble holds, Display renders the
\* pairs in order in their tuple form with " / " between consecutive pairs
\* and none trailing: n >= 1 pairs give n - 1 separators, and
\* [(1,-2), (0,3)] renders as "(1, -2) / (0, 3)".
DisplayRendersPairs ==
    last_op = "fmt" =>
        /\ ~fault
        /\ output = joined(turns)
        /\ Len(turns) >= 1 => Cardinality(separators(output)) = Len(turns) - 1
        /\ turns = <<<<1, -2>>, <<0, 3>>>> =>
              output = <<"(", "1", ",", " ", "-", "2", ")", " ", "/", " ",
                         "(", "0", ",", " ", "3", ")">>

====
